---- MODULE Spec2Model ----
(***************************************************************************)
(* A model of scripts/snapshot.py, the airdrop snapshot pipeline: the      *)
(* stage cache (cached), the ledger fold (transfers_to_balances, step_01), *)
(* the pool resolver (step_04), the merger (step_05), the pro-rata         *)
(* allocator (step_06) and the Merkle committer (MerkleTree, step_07).     *)
(*                                                                         *)
(* A Python dict is a sequence of <<key, value>> pairs with distinct keys, *)
(* in insertion order.  Amounts are scaled down: TLC integers are 32 bits  *)
(* wide, the program's are unbounded, so no width is modelled.             *)
(***************************************************************************)
EXTENDS Integers, Sequences, FiniteSets, TLC

VARIABLES
    stage,          \* the stage the specification is about ("01" .. "07", "main")
    args,           \* the arguments the stage is invoked with
    cache,          \* stage name -> contents of its artifact file, NoArtifact when absent
    status,         \* "idle", "running", "returned", "aborted"
    ret,            \* what the last invocation returned
    error,          \* the exception that aborted the run, "none" otherwise
    hit,            \* TRUE iff the last invocation was served from the cache
    loop,           \* the locals of a stage that is running (a record)
    history         \* runs of the script so far; per stage, how often its function
                    \* ran, ran to its return, and how often its artifact was written

vars == <<stage, args, cache, status, ret, error, hit, loop, history>>

----------------------------------------------------------------------------
(* Program constants, scaled.                                              *)

\* Wei('1 ether'), the dust threshold of step_06, scaled from 10^18.
OneEther == 2
\* DISTRIBUTION_AMOUNT = Wei('8000000 ether'), scaled.
DISTRIBUTION_AMOUNT == 8
\* ZERO_ADDRESS, the mint/burn sentinel.
ZERO_ADDRESS == 0
\* START_BLOCK = 10950650, SNAPSHOT_BLOCK = 10954410 and the batch of 1000
\* blocks, scaled: four batches, the last one ending at SNAPSHOT_BLOCK.
START_BLOCK == 0
SNAPSHOT_BLOCK == 7
BATCH == 2

----------------------------------------------------------------------------
(* Bounds of the model.                                                    *)

\* holders in a table given to step_05 / step_06
MaxHolders == 3
\* largest value of a holder in a table
MaxValue == 3
\* largest debt (negative value) of a holder in a table
MaxDebt == 1
\* addresses 1 .. MaxUsers hold pool shares and flat balances in steps 04 and 05
MaxUsers == 3
\* largest normalized (dai) value of a holder before the merge
MaxPoolValue == 2
\* largest share balance in a pool ledger given to the merge's inputs
MaxShare == 2
\* holders in such a pool ledger
MaxShareHolders == 2
\* resolved pools in a replacements map
MaxPools == 2
\* Transfer logs one getLogs call returns
MaxBatchLogs == 1
\* largest wad of a Transfer log
MaxWad == 1
\* holders of a token in step_01
MaxTokenHolders == 2
\* longest block range and largest batch size tried in step_01
MaxRange == 4
MaxBatch == 3
\* contract holders given to step_04
MaxContracts == 1
\* runs of the script
MaxRuns == 2
\* distinct results a stage function can return in the model of main
MaxResult == 2
\* claims in a table given to step_07, and the accounts they are drawn from
MaxClaims == 5
MaxAccounts == 6
\* largest amount of a claim
MaxAmount == 1

----------------------------------------------------------------------------
(* Python dicts and arithmetic.                                            *)

Abs(n) == IF n < 0 THEN -n ELSE n
Min(a, b) == IF a < b THEN a ELSE b

\* int(Fraction(n, d)): exact quotient, truncated toward zero.
TruncDiv(n, d) ==
    LET q == Abs(n) \div Abs(d)
    IN  IF (n < 0) # (d < 0) THEN -q ELSE q

\* floor(n / d) for d > 0.
FloorDiv(n, d) == n \div d

RECURSIVE SumSeq(_)
SumSeq(s) == IF s = <<>> THEN 0 ELSE Head(s) + SumSeq(Tail(s))

Keys(d) == {d[i][1] : i \in DOMAIN d}
Values(d) == [i \in DOMAIN d |-> d[i][2]]
Has(d, k) == \E i \in DOMAIN d : d[i][1] = k
IndexOf(d, k) == CHOOSE i \in DOMAIN d : d[i][1] = k
Get(d, k) == d[IndexOf(d, k)][2]
\* d[k] = v
Put(d, k, v) ==
    IF Has(d, k) THEN [d EXCEPT ![IndexOf(d, k)] = <<k, v>>]
    ELSE Append(d, <<k, v>>)
\* Counter: d[k] += v, a missing key counting as 0
Add(d, k, v) == Put(d, k, (IF Has(d, k) THEN Get(d, k) ELSE 0) + v)
\* d.pop(k), for a key of d
Pop(d, k) == SelectSeq(d, LAMBDA e : e[1] # k)
\* toolz.valfilter(bool, d)
ValFilterBool(d) == SelectSeq(d, LAMBDA e : e[2] # 0)

\* Counter.most_common(): a stable sort by value, descending.
RECURSIVE MostCommon(_)
MostCommon(d) ==
    IF d = <<>> THEN <<>>
    ELSE LET n    == Len(d)
             rest == MostCommon(SubSeq(d, 1, n - 1))
             e    == d[n]
             \* e goes after every entry whose value is >= its own
             keep == SelectSeq(rest, LAMBDA x : x[2] >= e[2])
             tail == SelectSeq(rest, LAMBDA x : x[2] < e[2])
         IN  keep \o <<e>> \o tail

\* All dicts with at most n entries, keys from K (each at most once), values from V.
RECURSIVE Dicts(_, _, _)
Dicts(K, V, n) ==
    IF n = 0 THEN {<<>>}
    ELSE LET shorter == Dicts(K, V, n - 1)
             longest == {d \in shorter : Len(d) = n - 1}
         IN  shorter \cup
             UNION {{Append(d, <<k, v>>) : k \in K \ Keys(d), v \in V} : d \in longest}

----------------------------------------------------------------------------
(* Outcomes of a stage function: a returned value or a raised exception.   *)

Return(v) == [ok |-> TRUE, value |-> v, error |-> "none"]
Raise(e) == [ok |-> FALSE, value |-> <<>>, error |-> e]

----------------------------------------------------------------------------
(* cached: the stage cache.                                                *)

Stages == {"01", "02", "03", "04", "05", "06", "07"}

\* no file at path
NoArtifact == <<>>
\* codec.dumps(result): the text of the artifact file
Dumps(v) == <<"text", v>>
\* codec.loads(path.read_text())
Loads(t) == t[2]

CacheNeverHit(artifact) == FALSE

\* path.exists()
CacheHit(artifact) == artifact # NoArtifact

\* wrapper(*args): what one invocation of a cached stage does to the artifact
\* and what it hands back; outcome is the outcome of func(*args), which runs
\* only on a miss.
cached(artifact, outcome) ==
    IF CacheHit(artifact)
    THEN [artifact |-> artifact, status |-> "returned", ret |-> Loads(artifact),
          error |-> "none", hit |-> TRUE]
    ELSE IF outcome.ok
    THEN [artifact |-> Dumps(outcome.value), status |-> "returned",
          ret |-> outcome.value, error |-> "none", hit |-> FALSE]
    ELSE [artifact |-> artifact, status |-> "aborted", ret |-> <<>>,
          error |-> outcome.error, hit |-> FALSE]

NoHistory ==
    [runs      |-> 1,
     executed  |-> [s \in Stages |-> 0],
     completed |-> [s \in Stages |-> 0],
     written   |-> [s \in Stages |-> 0]]

\* One invocation of stage s whose function has the given outcome: what it
\* does to the artifact, the returned value and the history.
InvokeEffects(s, outcome) ==
    LET r == cached(cache[s], outcome)
    IN  /\ cache' = [cache EXCEPT ![s] = r.artifact]
        /\ ret' = r.ret
        /\ error' = r.error
        /\ hit' = r.hit
        /\ history' = [history EXCEPT
                         !.executed[s]  = IF r.hit THEN @ ELSE @ + 1,
                         !.completed[s] = IF ~r.hit /\ r.status = "returned" THEN @ + 1 ELSE @,
                         !.written[s]   = IF ~r.hit /\ r.status = "returned" THEN @ + 1 ELSE @]

\* The invocation of a stage on its own.
Invoke(s, outcome) ==
    /\ InvokeEffects(s, outcome)
    /\ status' = cached(cache[s], outcome).status

\* The locals of a stage that is not running.
NoLoop ==
    [pc |-> "none", idx |-> 0, out |-> <<>>, start |-> 0, balances |-> <<>>,
     queried |-> <<>>, ledgers |-> <<>>, probes |-> <<>>]

\* The script is run again, in a new process: only the artifact files and
\* the chain data upstream of the stage are as they were.
NewProcess ==
    /\ status \in {"returned", "aborted"}
    /\ history.runs < MaxRuns
    /\ status' = "idle"
    /\ ret' = <<>>
    /\ error' = "none"
    /\ hit' = FALSE
    /\ loop' = NoLoop
    /\ history' = [history EXCEPT !.runs = @ + 1]
    /\ UNCHANGED <<stage, cache>>

\* A stage is run again on the same upstream data.
Rerun ==
    /\ stage # "main"
    /\ NewProcess
    /\ UNCHANGED args

----------------------------------------------------------------------------
(* step_06: ProRataAllocator.                                              *)

\* valfilter(lambda value: value >= Wei('1 ether'), balances)
Step06Kept(balances) == SelectSeq(balances, LAMBDA e : e[2] >= OneEther)

\* total = sum(balances.values()), taken before the filter
Step06Total(balances) == SumSeq(Values(balances))

Step06AssertDropped(pro_rata) == TRUE
\* assert sum(pro_rata.values()) <= DISTRIBUTION_AMOUNT
Step06Assert(pro_rata) == SumSeq(Values(pro_rata)) <= DISTRIBUTION_AMOUNT

step_06(balances) ==
    LET total == Step06Total(balances)
        kept  == Step06Kept(balances)
    IN  IF kept # <<>> /\ total = 0 THEN Raise("ZeroDivisionError")
        ELSE LET pro_rata == [i \in DOMAIN kept |->
                                <<kept[i][1],
                                  TruncDiv(kept[i][2] * DISTRIBUTION_AMOUNT, total)>>]
             IN  IF Step06Assert(pro_rata) THEN Return(pro_rata)
                 ELSE Raise("AssertionError")

Holders == 1 .. MaxHolders
TableValues == (-MaxDebt) .. MaxValue

InitAlloc ==
    /\ stage = "06"
    /\ args \in Dicts(Holders, TableValues, MaxHolders)
    /\ cache = [s \in Stages |-> NoArtifact]
    /\ status = "idle"
    /\ ret = <<>>
    /\ error = "none"
    /\ hit = FALSE
    /\ loop = NoLoop
    /\ history = NoHistory

Step06 ==
    /\ stage = "06"
    /\ status = "idle"
    /\ Invoke("06", step_06(args))
    /\ UNCHANGED <<stage, args, loop>>

NextAlloc == Step06 \/ Rerun

SpecAlloc == InitAlloc /\ [][NextAlloc]_vars

\* The stage-6 function ran in the last invocation and returned.
Step06Computed == stage = "06" /\ status = "returned" /\ ~hit

\* C1: step_06 drops the holders below 1 ether and gives every remaining
\* holder floor(v / S * T), S being the sum of the remaining holders' values
\* (stated for tables of unsigned values, the documented input domain).
C1_RecomputedTotal ==
    (Step06Computed /\ \A i \in DOMAIN args : args[i][2] >= 0) =>
        LET kept == Step06Kept(args)
            S    == SumSeq(Values(kept))
        IN  /\ Keys(ret) = Keys(kept)
            /\ \A i \in DOMAIN kept :
                   Get(ret, kept[i][1]) = FloorDiv(kept[i][2] * DISTRIBUTION_AMOUNT, S)

\* C2: step_06 either aborts and leaves no artifact, or returns allocations
\* that sum to at most T; no stage-6 artifact sums to more than T.
C2_AllocationBound ==
    /\ (stage = "06" /\ status = "returned") =>
           SumSeq(Values(ret)) <= DISTRIBUTION_AMOUNT
    /\ (stage = "06" /\ cache["06"] # NoArtifact) =>
           SumSeq(Values(Loads(cache["06"]))) <= DISTRIBUTION_AMOUNT
    /\ (stage = "06" /\ status = "aborted") => cache["06"] = NoArtifact

\* C2 witness: step_06 ran on a table with a holder in debt, allocated
\* something and wrote its artifact.
C2_Witness ==
    /\ Step06Computed
    /\ \E i \in DOMAIN args : args[i][2] < 0
    /\ ret # <<>>
    /\ cache["06"] = Dumps(ret)

----------------------------------------------------------------------------
(* step_04, the arithmetic: the pro-rata split of one pool.                *)

\* {user: int(Fraction(balances[user], supply) * contracts[address]) for user in balances}
PoolReplacement(balances, value) ==
    LET supply == SumSeq(Values(balances))
    IN  [i \in DOMAIN balances |->
            <<balances[i][1], TruncDiv(balances[i][2] * value, supply)>>]

Step04AssertDropped(replacement, value) == TRUE
\* assert sum(replacements[address].values()) <= contracts[address]
Step04Assert(replacement, value) == SumSeq(Values(replacement)) <= value

----------------------------------------------------------------------------
(* step_05: BalanceMerger.                                                 *)

\* for user, balance in additions.items(): balances.setdefault(user, 0); balances[user] += balance
RECURSIVE Step05Additions(_, _)
Step05Additions(balances, additions) ==
    IF additions = <<>> THEN balances
    ELSE Step05Additions(Add(balances, Head(additions)[1], Head(additions)[2]),
                         Tail(additions))

\* for remove, additions in replacements.items(): balances.pop(remove); ...
\* balances.pop raises KeyError for a key that is not there.
RECURSIVE Step05Fold(_, _)
Step05Fold(balances, replacements) ==
    IF replacements = <<>> THEN Return(balances)
    ELSE LET remove    == Head(replacements)[1]
             additions == Head(replacements)[2]
         IN  IF ~Has(balances, remove) THEN Raise("KeyError")
             ELSE Step05Fold(Step05Additions(Pop(balances, remove), additions),
                             Tail(replacements))

step_05(balances, replacements) ==
    LET folded == Step05Fold(balances, replacements)
    IN  IF folded.ok THEN Return(MostCommon(folded.value)) ELSE folded

Users == 1 .. MaxUsers

\* The share ledgers transfers_to_balances can hand to step_04: no zero entry,
\* in most_common order; a holder may be in debt (step_04 checks no sign).
ShareLedgers ==
    {MostCommon(d) : d \in Dicts(Users, ((-MaxShare) .. MaxShare) \ {0}, MaxShareHolders)}

\* The replacements step_04 can record for a pool of the given value.
ReplacementsOf(value) ==
    {PoolReplacement(l, value) :
        l \in {x \in ShareLedgers :
                  /\ SumSeq(Values(x)) # 0
                  /\ Step04Assert(PoolReplacement(x, value), value)}}

\* The replacements maps step_04 can return for a flat table: its keys are
\* holders of the table, in the table's order.
RECURSIVE ReplacementMaps(_, _)
ReplacementMaps(balances, n) ==
    IF balances = <<>> \/ n = 0 THEN {<<>>}
    ELSE LET e == Head(balances)
         IN  ReplacementMaps(Tail(balances), n)
             \cup {<<<<e[1], r>>>> \o m : r \in ReplacementsOf(e[2]),
                                         m \in ReplacementMaps(Tail(balances), n - 1)}

InitMerge ==
    /\ stage = "05"
    /\ \E b \in Dicts(Users, 1 .. MaxPoolValue, MaxUsers) :
          \E r \in ReplacementMaps(b, MaxPools) :
              args = [balances |-> b, replacements |-> r]
    /\ cache = [s \in Stages |-> NoArtifact]
    /\ status = "idle"
    /\ ret = <<>>
    /\ error = "none"
    /\ hit = FALSE
    /\ loop = NoLoop
    /\ history = NoHistory

Step05 ==
    /\ stage = "05"
    /\ status = "idle"
    /\ Invoke("05", step_05(args.balances, args.replacements))
    /\ UNCHANGED <<stage, args, loop>>

NextMerge == Step05 \/ Rerun

SpecMerge == InitMerge /\ [][NextMerge]_vars

\* The stage-5 function ran in the last invocation and returned.
Step05Computed == stage = "05" /\ status = "returned" /\ ~hit

\* C4: after step_05 no resolved pool (no key of the replacements map) is a
\* key of the merged table.
C4_ResolvedPoolsRemoved ==
    Step05Computed => Keys(ret) \cap Keys(args.replacements) = {}

\* the dust of the resolved pools: value(p) minus the sum of p's sub-amounts
RECURSIVE Dust(_, _)
Dust(balances, replacements) ==
    IF replacements = <<>> THEN 0
    ELSE Get(balances, Head(replacements)[1])
         - SumSeq(Values(Head(replacements)[2]))
         + Dust(balances, Tail(replacements))

\* C5: step_05 conserves the total value but for the dust of step_04.
C5_MergeConservesValue ==
    Step05Computed =>
        SumSeq(Values(ret)) =
            SumSeq(Values(args.balances)) - Dust(args.balances, args.replacements)

----------------------------------------------------------------------------
(* transfers_to_balances: the ledger fold, one getLogs batch per step.     *)

\* The Transfer logs a token with holders 1 .. n can emit.
TransferLogs(n) == [src : 0 .. n, dst : 0 .. n, wad : 1 .. MaxWad]

\* What one getLogs call can return: at most MaxBatchLogs logs.
RECURSIVE LogBatches(_, _)
LogBatches(n, k) ==
    IF k = 0 THEN {<<>>}
    ELSE LET shorter == LogBatches(n, k - 1)
         IN  shorter \cup {Append(b, l) : b \in {x \in shorter : Len(x) = k - 1},
                                          l \in TransferLogs(n)}

\* lines 69-72: debit src unless it is the zero address, credit dst likewise
ApplyLog(balances, log) ==
    LET debited == IF log.src # ZERO_ADDRESS
                   THEN Add(balances, log.src, -log.wad) ELSE balances
    IN  IF log.dst # ZERO_ADDRESS THEN Add(debited, log.dst, log.wad) ELSE debited

RECURSIVE ApplyLogs(_, _)
ApplyLogs(balances, logs) ==
    IF logs = <<>> THEN balances
    ELSE ApplyLogs(ApplyLog(balances, Head(logs)), Tail(logs))

\* end = min(start + 999, SNAPSHOT_BLOCK), for a batch of `batch` blocks
BatchEnd(start, snapshot, batch) == Min(start + batch - 1, snapshot)

\* the loop goes on: start is in range(START_BLOCK, SNAPSHOT_BLOCK, batch)
BatchLoopGoesOn(start, snapshot) == start < snapshot

\* return valfilter(bool, dict(balances.most_common()))
LedgerOf(balances) == ValFilterBool(MostCommon(balances))

\* The locals of a call of transfers_to_balances that has fetched nothing yet.
\* queried counts the getLogs calls that covered each block of the range.
NewFold(l, snapshot) ==
    [l EXCEPT !.pc = "fetch", !.start = START_BLOCK, !.balances = <<>>,
              !.queried = [b \in START_BLOCK .. snapshot |-> 0]]

\* One iteration of the for loop of transfers_to_balances.
FetchBatch(snapshot, batch, holders) ==
    /\ status = "running"
    /\ loop.pc = "fetch"
    /\ BatchLoopGoesOn(loop.start, snapshot)
    /\ \E logs \in LogBatches(holders, MaxBatchLogs) :
          LET end == BatchEnd(loop.start, snapshot, batch)
          IN  loop' = [loop EXCEPT
                         !.balances = ApplyLogs(@, logs),
                         !.start = @ + batch,
                         !.queried = [b \in DOMAIN @ |->
                                         IF loop.start <= b /\ b <= end
                                         THEN @[b] + 1 ELSE @[b]]]
    /\ UNCHANGED <<stage, args, cache, status, ret, error, hit, history>>

\* The for loop of transfers_to_balances is over.
FoldDone(snapshot) ==
    /\ status = "running"
    /\ loop.pc = "fetch"
    /\ ~BatchLoopGoesOn(loop.start, snapshot)

----------------------------------------------------------------------------
(* step_01: LedgerAggregator.                                              *)

\* TOKENS, scaled from six tokens to two
TOKENS == <<"EMN", "eCRV">>

\* assert min(balances[name].values()) >= 0; min() of nothing is a ValueError
Step01Check(ledger) ==
    IF ledger = <<>> THEN Raise("ValueError")
    ELSE IF \A i \in DOMAIN ledger : ledger[i][2] >= 0 THEN Return(ledger)
    ELSE Raise("AssertionError")

InitLedger ==
    /\ stage = "01"
    /\ \E snapshot \in (START_BLOCK + 1) .. (START_BLOCK + MaxRange), batch \in 1 .. MaxBatch :
          args = [snapshot |-> snapshot, batch |-> batch]
    /\ cache = [s \in Stages |-> NoArtifact]
    /\ status = "idle"
    /\ ret = <<>>
    /\ error = "none"
    /\ hit = FALSE
    /\ loop = NoLoop
    /\ history = NoHistory

Step01Call ==
    /\ stage = "01"
    /\ status = "idle"
    /\ IF CacheHit(cache["01"])
       THEN /\ Invoke("01", Raise("unused"))
            /\ UNCHANGED loop
       ELSE /\ status' = "running"
            /\ loop' = NewFold([NoLoop EXCEPT !.idx = 1], args.snapshot)
            /\ UNCHANGED <<cache, ret, error, hit, history>>
    /\ UNCHANGED <<stage, args>>

Step01FetchBatch ==
    /\ stage = "01"
    /\ FetchBatch(args.snapshot, args.batch, MaxTokenHolders)

\* transfers_to_balances returns for one token and step_01 checks its ledger.
Step01TokenDone ==
    /\ stage = "01"
    /\ FoldDone(args.snapshot)
    /\ LET checked == Step01Check(LedgerOf(loop.balances))
           out     == Put(loop.out, TOKENS[loop.idx], LedgerOf(loop.balances))
       IN  IF ~checked.ok
           THEN /\ Invoke("01", checked)
                /\ loop' = [loop EXCEPT !.pc = "raised"]
           ELSE IF loop.idx < Len(TOKENS)
           THEN /\ loop' = NewFold([loop EXCEPT !.idx = @ + 1, !.out = out],
                                   args.snapshot)
                /\ UNCHANGED <<cache, status, ret, error, hit, history>>
           ELSE /\ Invoke("01", Return(out))
                /\ loop' = [loop EXCEPT !.pc = "returned", !.out = out]
    /\ UNCHANGED <<stage, args>>

NextLedger == Step01Call \/ Step01FetchBatch \/ Step01TokenDone \/ Rerun

SpecLedger == InitLedger /\ [][NextLedger]_vars

----------------------------------------------------------------------------
(* is_uniswap, is_balancer and step_04: IndirectHoldingResolver.           *)

\* What a shape probe's contract call can do: answer the expected value,
\* answer another one (the assert fails), raise ValueError, or raise an
\* exception of another class, for which ConnectionError stands.
ProbeOutcomes == {"match", "mismatch", "ValueError", "ConnectionError"}

ProbeCatchesAssertionOnly(outcome) == outcome = "mismatch"

\* except (AssertionError, ValueError): return False
ProbeCatches(outcome) == outcome \in {"mismatch", "ValueError"}

\* is_uniswap(address) / is_balancer(address), given what its call does
Probe(outcome) ==
    IF outcome = "match" THEN Return(TRUE)
    ELSE IF ProbeCatches(outcome) THEN Return(FALSE)
    ELSE Raise(outcome)

\* is_uniswap(address) or is_balancer(address): the second probe runs only
\* when the first returns False
Recognize(uni, bal) ==
    LET u == Probe(uni)
    IN  IF ~u.ok \/ u.value THEN u ELSE Probe(bal)

\* the probes that ran
ProbesRun(uni, bal) ==
    IF Probe(uni).ok /\ ~Probe(uni).value THEN <<uni, bal>> ELSE <<uni>>

InitPool ==
    /\ stage = "04"
    /\ args \in Dicts(1 .. MaxContracts, 1 .. MaxPoolValue, MaxContracts)
    /\ cache = [s \in Stages |-> NoArtifact]
    /\ status = "idle"
    /\ ret = <<>>
    /\ error = "none"
    /\ hit = FALSE
    /\ loop = NoLoop
    /\ history = NoHistory

\* for address in contracts: the loop moves on to the next address, or ends
Step04Continue(l) ==
    IF l.idx < Len(args) THEN [l EXCEPT !.pc = "probe", !.idx = @ + 1]
    ELSE [l EXCEPT !.pc = "return"]

Step04Call ==
    /\ stage = "04"
    /\ status = "idle"
    /\ IF CacheHit(cache["04"])
       THEN /\ Invoke("04", Raise("unused"))
            /\ UNCHANGED loop
       ELSE /\ status' = "running"
            /\ loop' = Step04Continue(NoLoop)
            /\ UNCHANGED <<cache, ret, error, hit, history>>
    /\ UNCHANGED <<stage, args>>

\* if not (is_uniswap(address) or is_balancer(address)): continue
Step04Probe ==
    /\ stage = "04"
    /\ status = "running"
    /\ loop.pc = "probe"
    /\ \E uni \in ProbeOutcomes, bal \in ProbeOutcomes :
          LET address    == args[loop.idx][1]
              recognized == Recognize(uni, bal)
              probed     == [loop EXCEPT !.probes = Put(@, address, ProbesRun(uni, bal))]
          IN  IF ~recognized.ok
              THEN /\ Invoke("04", recognized)
                   /\ loop' = [probed EXCEPT !.pc = "raised"]
              ELSE /\ loop' = IF recognized.value THEN NewFold(probed, SNAPSHOT_BLOCK)
                              ELSE Step04Continue(probed)
                   /\ UNCHANGED <<cache, status, ret, error, hit, history>>
    /\ UNCHANGED <<stage, args>>

Step04FetchBatch ==
    /\ stage = "04"
    /\ FetchBatch(SNAPSHOT_BLOCK, BATCH, MaxUsers)

\* lines 172-179: the share ledger is split pro rata and the split is checked
Step04Resolve ==
    /\ stage = "04"
    /\ FoldDone(SNAPSHOT_BLOCK)
    /\ LET address     == args[loop.idx][1]
           value       == args[loop.idx][2]
           balances    == LedgerOf(loop.balances)
           supply      == SumSeq(Values(balances))
           replacement == PoolReplacement(balances, value)
       IN  IF supply = 0
           THEN /\ loop' = Step04Continue(loop)
                /\ UNCHANGED <<cache, status, ret, error, hit, history>>
           ELSE IF ~Step04Assert(replacement, value)
           THEN /\ Invoke("04", Raise("AssertionError"))
                /\ loop' = [loop EXCEPT !.pc = "raised",
                                        !.out = Put(@, address, replacement),
                                        !.ledgers = Put(@, address, balances)]
           ELSE /\ loop' = Step04Continue(
                              [loop EXCEPT !.out = Put(@, address, replacement),
                                           !.ledgers = Put(@, address, balances)])
                /\ UNCHANGED <<cache, status, ret, error, hit, history>>
    /\ UNCHANGED <<stage, args>>

\* return replacements
Step04Return ==
    /\ stage = "04"
    /\ status = "running"
    /\ loop.pc = "return"
    /\ Invoke("04", Return(loop.out))
    /\ loop' = [loop EXCEPT !.pc = "returned"]
    /\ UNCHANGED <<stage, args>>

NextPool ==
    \/ Step04Call
    \/ Step04Probe
    \/ Step04FetchBatch
    \/ Step04Resolve
    \/ Step04Return
    \/ Rerun

SpecPool == InitPool /\ [][NextPool]_vars

\* every replacement of the map sums to at most the value of its pool
WithinPoolValue(replacements) ==
    \A i \in DOMAIN replacements :
        SumSeq(Values(replacements[i][2])) <= Get(args, replacements[i][1])

\* C3: no replacement that step_04 returns or stores sums to more than the
\* aggregate value of its pool; when one would, the stage aborts and writes
\* no artifact.
C3_PoolSplitBound ==
    stage = "04" =>
        /\ status = "returned" => WithinPoolValue(ret)
        /\ cache["04"] # NoArtifact => WithinPoolValue(Loads(cache["04"]))
        /\ (status = "running" /\ loop.pc = "return") => WithinPoolValue(loop.out)
        /\ (loop.pc = "raised" /\ ~WithinPoolValue(loop.out)) =>
               status = "aborted" /\ cache["04"] = NoArtifact

\* C3 witness: step_04 returned the split of a pool whose share ledger has a
\* holder in debt, and the split lost dust to rounding.
C3_Witness ==
    /\ stage = "04" /\ status = "returned" /\ ~hit
    /\ cache["04"] = Dumps(ret)
    /\ \E i \in DOMAIN ret :
          /\ SumSeq(Values(ret[i][2])) < Get(args, ret[i][1])
          /\ \E j \in DOMAIN loop.ledgers[i][2] : loop.ledgers[i][2][j][2] < 0

\* C7: no pool replacement is derived from a share ledger with a negative
\* balance (the pipeline aborts instead).
C7_NoNegativeLedgerUsed ==
    stage = "04" =>
        \A i \in DOMAIN loop.ledgers :
            \A j \in DOMAIN loop.ledgers[i][2] : loop.ledgers[i][2][j][2] >= 0

\* every probe that ran for the address failed
ProbesFailed(outcomes) == \A k \in DOMAIN outcomes : outcomes[k] # "match"

\* C8 as stated: a holder whose probes fail, by a mismatch or by any
\* exception, is not resolved, and the failure never aborts the stage.
C8_ProbeFailureNeverAborts ==
    stage = "04" =>
        \A i \in DOMAIN loop.probes :
            ProbesFailed(loop.probes[i][2]) =>
                /\ ~Has(loop.out, loop.probes[i][1])
                /\ ~(status = "aborted" /\ args[loop.idx][1] = loop.probes[i][1])

\* C8 as amended: a holder whose probes fail by a mismatch or by ValueError
\* is not resolved and the stage goes on past it; a probe that raises
\* another exception aborts the stage, which writes no artifact.
C8_CaughtProbeFailuresPassThrough ==
    stage = "04" =>
        /\ \A i \in DOMAIN loop.probes :
               LET outcomes == loop.probes[i][2]
                   address  == loop.probes[i][1]
               IN  /\ (\A k \in DOMAIN outcomes : outcomes[k] \in {"mismatch", "ValueError"}) =>
                          /\ ~Has(loop.out, address)
                          /\ ~Has(ret, address)
                          /\ loop.pc \in {"return", "returned"} \/ args[loop.idx][1] # address
                   /\ (\E k \in DOMAIN outcomes : outcomes[k] = "ConnectionError") =>
                          /\ status = "aborted"
                          /\ error = "ConnectionError"
                          /\ cache["04"] = NoArtifact

\* C8 witness: step_04 returned after a holder failed both probes, one by a
\* mismatch and one by ValueError.
C8_Witness ==
    /\ stage = "04" /\ status = "returned" /\ ~hit
    /\ \E i \in DOMAIN loop.probes :
          /\ loop.probes[i][2] \in {<<"mismatch", "ValueError">>, <<"ValueError", "mismatch">>}
          /\ ~Has(ret, loop.probes[i][1])

----------------------------------------------------------------------------
(* MerkleTree and step_07: MerkleCommitter.                                *)
(* A hash is the term <<"keccak", preimage>>: keccak is collision-free.    *)
(* The preimage of a leaf is the packed triple, that of a node the two     *)
(* concatenated hashes.  The byte order of the hashes, which sorted()      *)
(* compares, is a total order unrelated to the preimages: a scrambled      *)
(* digest decides it, the preimages break ties.                            *)

\* web3.keccak
Keccak(preimage) == <<"keccak", preimage>>

\* encode_abi_packed(['uint', 'address', 'uint'], (index, account, amount)):
\* fixed width, so distinct triples have distinct encodings
EncodePacked(index, account, amount) == <<index, account, amount>>

\* encode_hex / hex and their inverses
EncodeHex(x) == <<"0x", x>>
DecodeHex(h) == h[2]

IsLeafHash(h) == Len(h[2]) = 3

RECURSIVE Digest(_)
Digest(h) ==
    IF IsLeafHash(h) THEN (3 * h[2][1] + 5 * h[2][2] + 7 * h[2][3]) % 11
    ELSE (2 * Digest(h[2][1]) + 3 * Digest(h[2][2]) + 1) % 11

\* a < b for two hashes, as bytes
RECURSIVE HashLess(_, _)
HashLess(a, b) ==
    LET da == Digest(a)
        db == Digest(b)
    IN  IF da # db THEN da < db
        ELSE IF IsLeafHash(a) /\ IsLeafHash(b)
        THEN LET x == a[2]
                 y == b[2]
             IN  \/ x[1] < y[1]
                 \/ x[1] = y[1] /\ x[2] < y[2]
                 \/ x[1] = y[1] /\ x[2] = y[2] /\ x[3] < y[3]
        ELSE IF IsLeafHash(a) \/ IsLeafHash(b) THEN IsLeafHash(a)
        ELSE IF a[2][1] # b[2][1] THEN HashLess(a[2][1], b[2][1])
        ELSE HashLess(a[2][2], b[2][2])

\* sorted(set(...)) of hashes
RECURSIVE SortHashes(_)
SortHashes(S) ==
    IF S = {} THEN <<>>
    ELSE LET least == CHOOSE x \in S : \A y \in S \ {x} : HashLess(x, y)
         IN  <<least>> \o SortHashes(S \ {least})

combined_hash_unsorted(a, b) ==
    IF a = <<>> THEN b
    ELSE IF b = <<>> THEN a
    ELSE Keccak(<<a, b>>)

\* MerkleTree.combined_hash(a, b); None is <<>>
combined_hash(a, b) ==
    IF a = <<>> THEN b
    ELSE IF b = <<>> THEN a
    ELSE Keccak(IF HashLess(b, a) THEN <<b, a>> ELSE <<a, b>>)

\* MerkleTree.get_next_layer: zip_longest(elements[::2], elements[1::2])
get_next_layer(elements) ==
    [k \in 1 .. ((Len(elements) + 1) \div 2) |->
        combined_hash(elements[2 * k - 1],
                      IF 2 * k <= Len(elements) THEN elements[2 * k] ELSE <<>>)]

\* MerkleTree.get_layers
RECURSIVE get_layers_from(_)
get_layers_from(layers) ==
    IF Len(layers[Len(layers)]) > 1
    THEN get_layers_from(Append(layers, get_next_layer(layers[Len(layers)])))
    ELSE layers

get_layers(elements) == get_layers_from(<<elements>>)

\* MerkleTree.__init__: the tree is its sorted leaf hashes and its layers
MerkleTree(nodes) ==
    LET elements == SortHashes({Keccak(DecodeHex(nodes[i])) : i \in DOMAIN nodes})
    IN  [elements |-> elements, layers |-> get_layers(elements)]

\* MerkleTree.root: self.layers[-1][0], for a tree with a leaf
root(tree) == tree.layers[Len(tree.layers)][1]

\* MerkleTree.get_proof; idx counts from 0 as in the source
RECURSIVE get_proof_from(_, _, _)
get_proof_from(tree, depth, idx) ==
    IF depth > Len(tree.layers) THEN <<>>
    ELSE LET layer    == tree.layers[depth]
             pair_idx == IF idx % 2 = 0 THEN idx + 1 ELSE idx - 1
         IN  (IF pair_idx < Len(layer) THEN <<EncodeHex(layer[pair_idx + 1])>> ELSE <<>>)
             \o get_proof_from(tree, depth + 1, idx \div 2)

get_proof(tree, el) ==
    LET hash == Keccak(DecodeHex(el))
        idx  == (CHOOSE i \in DOMAIN tree.elements : tree.elements[i] = hash) - 1
    IN  get_proof_from(tree, 1, idx)

step_07(balances) ==
    LET elements == [i \in DOMAIN balances |-> <<i - 1, balances[i][1], balances[i][2]>>]
        nodes    == [i \in DOMAIN elements |->
                        EncodeHex(EncodePacked(elements[i][1], elements[i][2], elements[i][3]))]
        tree     == MerkleTree(nodes)
    IN  IF \E i \in DOMAIN balances : balances[i][2] < 0 THEN Raise("EncodingError")
        ELSE IF balances = <<>> THEN Raise("IndexError")
        ELSE Return([merkleRoot |-> EncodeHex(root(tree)),
                     tokenTotal |-> EncodeHex(SumSeq(Values(balances))),
                     claims     |-> [i \in DOMAIN elements |->
                                        <<elements[i][2],
                                          [index  |-> elements[i][1],
                                           amount |-> EncodeHex(elements[i][3]),
                                           proof  |-> get_proof(tree, nodes[i])]>>]])

\* The tables with at most n claims, their accounts in ascending order.
RECURSIVE ClaimTables(_, _)
ClaimTables(n, least) ==
    IF n = 0 THEN {<<>>}
    ELSE {<<>>} \cup
         UNION {{<<<<a, v>>>> \o t : v \in (-1) .. MaxAmount,
                                     t \in ClaimTables(n - 1, a + 1)} :
                a \in least .. MaxAccounts}

InitMerkle ==
    /\ stage = "07"
    /\ args \in ClaimTables(MaxClaims, 1)
    /\ cache = [s \in Stages |-> NoArtifact]
    /\ status = "idle"
    /\ ret = <<>>
    /\ error = "none"
    /\ hit = FALSE
    /\ loop = NoLoop
    /\ history = NoHistory

Step07 ==
    /\ stage = "07"
    /\ status = "idle"
    /\ Invoke("07", step_07(args))
    /\ UNCHANGED <<stage, args, loop>>

NextMerkle == Step07 \/ Rerun

SpecMerkle == InitMerkle /\ [][NextMerkle]_vars

\* The walk of a verifier: from the leaf hash, parent = H(sorted(current, sibling))
\* for each sibling of the proof, leaf to root.
RECURSIVE ProofWalk(_, _)
ProofWalk(current, proof) ==
    IF proof = <<>> THEN current
    ELSE LET sibling == DecodeHex(Head(proof))
         IN  ProofWalk(Keccak(IF HashLess(sibling, current) THEN <<sibling, current>>
                              ELSE <<current, sibling>>),
                       Tail(proof))

LeafHash(index, account, amount) == Keccak(EncodePacked(index, account, amount))

\* C6: in a distribution step_07 returned, the proof of every claim walks
\* from the claim's leaf to the published root, and from the leaf of the same
\* index and holder with any other amount it does not.
C6_ProofSoundness ==
    (stage = "07" /\ status = "returned") =>
        \A i \in DOMAIN ret.claims :
            LET account == ret.claims[i][1]
                claim   == ret.claims[i][2]
            IN  /\ ProofWalk(LeafHash(claim.index, account, DecodeHex(claim.amount)),
                             claim.proof) = DecodeHex(ret.merkleRoot)
                /\ \A tampered \in (0 .. (MaxAmount + 1)) \ {DecodeHex(claim.amount)} :
                       ProofWalk(LeafHash(claim.index, account, tampered), claim.proof)
                           # DecodeHex(ret.merkleRoot)

\* C6 witness: a distribution of five claims, whose layers have 5, 3, 2 and 1
\* hashes: the last leaf is carried twice and its proof has one sibling.
C6_Witness ==
    /\ stage = "07" /\ status = "returned" /\ ~hit
    /\ Len(ret.claims) = 5
    /\ \E i \in DOMAIN ret.claims : Len(ret.claims[i][2].proof) = 1
    /\ \E i \in DOMAIN ret.claims : Len(ret.claims[i][2].proof) = 3

----------------------------------------------------------------------------
(* main: the seven cached stages in a row.  What a stage function computes *)
(* is left open here: it returns some result or raises.                    *)

\* main(), lines 311-317: the stages in call order
StageOrder == <<"01", "02", "03", "04", "05", "06", "07">>

\* What func(*args) can do on a miss.
StageOutcomes == {Return(v) : v \in 1 .. MaxResult} \cup {Raise("Exception")}

InitMain ==
    /\ stage = "main"
    /\ args = <<>>
    /\ cache = [s \in Stages |-> NoArtifact]
    /\ status = "idle"
    /\ ret = <<>>
    /\ error = "none"
    /\ hit = FALSE
    /\ loop = NoLoop
    /\ history = NoHistory

MainCall ==
    /\ stage = "main"
    /\ status = "idle"
    /\ status' = "running"
    /\ loop' = [NoLoop EXCEPT !.pc = "main", !.idx = 1]
    /\ UNCHANGED <<stage, args, cache, ret, error, hit, history>>

\* One line of main: the next stage is invoked with what the one before
\* returned; an exception ends the run, the last stage's return ends main.
MainStep ==
    /\ stage = "main"
    /\ status = "running"
    /\ loop.pc = "main"
    /\ \E outcome \in StageOutcomes :
          LET s == StageOrder[loop.idx]
              r == cached(cache[s], outcome)
          IN  /\ InvokeEffects(s, outcome)
              /\ args' = ret
              /\ IF r.status = "aborted"
                 THEN status' = "aborted" /\ loop' = [loop EXCEPT !.pc = "raised"]
                 ELSE IF loop.idx = Len(StageOrder)
                 THEN status' = "returned" /\ loop' = [loop EXCEPT !.pc = "returned"]
                 ELSE status' = "running" /\ loop' = [loop EXCEPT !.idx = @ + 1]
    /\ UNCHANGED stage

MainRerun ==
    /\ stage = "main"
    /\ NewProcess
    /\ args' = <<>>

NextMain == MainCall \/ MainStep \/ MainRerun

SpecMain == InitMain /\ [][NextMain]_vars

\* the step is main's invocation of stage s
InvokedInMain(s) ==
    /\ stage = "main" /\ status = "running" /\ loop.pc = "main"
    /\ StageOrder[loop.idx] = s
    /\ loop' # loop

\* C10: a stage invoked while its artifact exists returns the stored artifact,
\* runs nothing and rewrites nothing; so every artifact is written at most
\* once, and only by a run of its stage function that returned.
C10_SkipOnExists ==
    /\ [](\A s \in Stages :
            /\ history.written[s] <= 1
            /\ history.written[s] <= history.completed[s]
            /\ cache[s] # NoArtifact <=> history.written[s] = 1)
    /\ [][\A s \in Stages :
            cache[s] # NoArtifact =>
                /\ cache'[s] = cache[s]
                /\ history'.executed[s] = history.executed[s]
                /\ history'.written[s] = history.written[s]
                /\ InvokedInMain(s) => hit' /\ ret' = Loads(cache[s])]_vars

\* C10 witness: in a second run, after a first one that was aborted at stage
\* 03, stage 02 was served from its artifact and stage 03 ran again.
C10_Witness ==
    /\ stage = "main"
    /\ history.runs = 2
    /\ history.executed["02"] = 1 /\ history.written["02"] = 1
    /\ history.executed["03"] = 2 /\ history.written["03"] = 1
    /\ loop.idx = 4 /\ status = "running"

====
